---- MODULE Spec2Model ----
(***************************************************************************)
(* launch-node-app: an interactive generator of an express project         *)
(* skeleton.  The repository holds two variants of the same script:        *)
(* src/index.js (JavaScript or TypeScript output, optional Dockerfile) and *)
(* src/unnamed/part_000 (TypeScript output only, no Dockerfile).           *)
(*                                                                         *)
(* The model follows one process of either script: the prompt, the .then   *)
(* callback, the npm init child process and its callback, the two          *)
(* installDependencies calls with their npm show lookups, and the          *)
(* synchronous file generation.  A JavaScript callback runs to completion: *)
(* pc walks through the statements of the callback, and continuations of   *)
(* awaited promises and child-process callbacks run only when the call     *)
(* stack is empty.                                                         *)
(***************************************************************************)
EXTENDS Integers, Sequences, FiniteSets, TLC

VARIABLES
  script,           \* which of the two scripts the process runs
  answers,          \* the answer set the user gives to the questionnaire
  prompt,           \* the inquirer promise: "pending", "answered", "cancelled"
  pc,               \* position of the main program
  initExit,         \* the npm init child process: "none", "running", "ok", "err"
  folderIdx,        \* index of the folders.forEach loop
  dirs,             \* directories on disk (paths)
  files,            \* files on disk: path -> content
  ops,              \* fs calls made by this process, in order
  cmds,             \* child processes started by this process, in order
  dependencies,     \* the runtime dependency list
  devDependencies,  \* the dev dependency list
  lookups,          \* per installDependencies call: state of each npm show
  install,          \* per installDependencies call: state of the call
  failures,         \* number of npm show lookups that failed in this run
  run,              \* number of the process launch (1 = first)
  dirsAtLaunch,     \* directories on disk when this process was launched
  filesAtLaunch     \* files on disk when this process was launched

vars == <<script, answers, prompt, pc, initExit, folderIdx, dirs, files, ops,
          cmds, dependencies, devDependencies, lookups, install, failures, run,
          dirsAtLaunch, filesAtLaunch>>

-----------------------------------------------------------------------------
(* Bounds *)

\* at most this many npm show lookups fail in one run
MaxFailures == 1

\* at most this many launches of the generator against the same directory
MaxRuns == 2

-----------------------------------------------------------------------------
(* Inputs *)

Scripts == {"index.js", "part_000"}

Languages == {"JavaScript", "TypeScript"}

ProjectNames == {"my-app"}

\* neither script reads answers.basicErrorHandler: it stays at its default
BasicErrorHandlerAnswers == {TRUE}

AnswerSets ==
  [projectName : ProjectNames, language : Languages, enableCORS : BOOLEAN,
   basicErrorHandler : BasicErrorHandlerAnswers, envFile : BOOLEAN,
   morganLogging : BOOLEAN, docker : BOOLEAN]

\* the two installDependencies calls, named by their isDev argument
Calls == {FALSE, TRUE}

-----------------------------------------------------------------------------
(* Paths: a path is the sequence of its segments *)

Cwd == <<"cwd">>

PathJoin(dir, name) == Append(dir, name)

Dirname(path) == SubSeq(path, 1, Len(path) - 1)

Basename(path) == path[Len(path)]

projectDir == PathJoin(Cwd, answers.projectName)

packageJsonPath == PathJoin(projectDir, "package.json")

srcDir == PathJoin(projectDir, "src")

utilsDir == PathJoin(srcDir, "utils")

folders == <<"controllers", "middlewares", "models", "routes", "tests", "lib">>

\* the error handler written into a directory the script never creates
errorHandlerPath_Helpers == PathJoin(PathJoin(srcDir, "helpers"), "errorHandler.ts")

errorHandlerPath == PathJoin(utilsDir, "errorHandler.ts")

appFilePath ==
  IF script = "index.js"
  THEN IF answers.language = "TypeScript"
       THEN PathJoin(srcDir, "app.ts")
       ELSE PathJoin(srcDir, "app.js")
  ELSE PathJoin(srcDir, "app.ts")

envFilePath == PathJoin(projectDir, ".env")

tsconfigFilePath == PathJoin(projectDir, "tsconfig.json")

errorMiddlewarePath ==
  IF script = "index.js"
  THEN IF answers.language = "TypeScript"
       THEN PathJoin(PathJoin(srcDir, "middlewares"), "error.ts")
       ELSE PathJoin(PathJoin(srcDir, "middlewares"), "error.js")
  ELSE PathJoin(PathJoin(srcDir, "middlewares"), "error.ts")

dockerFilePath == PathJoin(projectDir, "Dockerfile")

-----------------------------------------------------------------------------
(* File contents: a text is the sequence of its lines (indentation and     *)
(* blank lines left out)                                                   *)

Opt(cond, lines) == IF cond THEN lines ELSE <<>>

errorHandlerContent ==
  << "export class ErrorHandler extends Error {",
     "public statusCode: number;",
     "constructor(message: string, statusCode: number = 500) {",
     "super(message);",
     "this.statusCode = statusCode;",
     "Error.captureStackTrace(this, this.constructor);",
     "}",
     "}" >>

\* appFileContent of src/index.js
appFileContent(enableCORS, morganLogging, envFile, language) ==
  LET imports ==
        IF language = "TypeScript"
        THEN <<"import express from 'express';">>
             \o Opt(envFile, <<"import dotenv from 'dotenv';">>)
             \o Opt(enableCORS, <<"import cors from 'cors';">>)
             \o Opt(morganLogging, <<"import morgan from 'morgan';">>)
        ELSE <<"const express = require('express');">>
             \o Opt(envFile, <<"require('dotenv').config();">>)
             \o Opt(enableCORS, <<"const cors = require('cors');">>)
             \o Opt(morganLogging, <<"const morgan = require('morgan');">>)
      appSetup ==
        Opt(language = "TypeScript" /\ envFile,
            <<"dotenv.config(); // Load environment variables from .env file">>)
        \o <<"const app = express();", "app.use(express.json());">>
        \o Opt(enableCORS, <<"app.use(cors()); // Enable CORS">>)
        \o Opt(morganLogging, <<"app.use(morgan('dev')); // Use Morgan for logging">>)
      remainingSetup ==
        << "const envMode = process.env.NODE_ENV || 'development';",
           "const port = process.env.PORT || 3000;",
           "app.listen(port, () => {",
           "console.log(`Server running in ${envMode} mode on port ${port}`);",
           "});",
           "app.get('/', (req, res) => {",
           "res.send('Hello World');",
           "});" >>
  IN IF language = "TypeScript"
     THEN imports \o appSetup \o remainingSetup
          \o <<"export { app, envMode }; export default app;">>
     ELSE imports \o appSetup \o remainingSetup
          \o <<"module.exports = { app, envMode };">>

\* appFileContent of src/unnamed/part_000
appFileContentTs(enableCORS, morganLogging, envFile) ==
  LET imports ==
        <<"import express from 'express';">>
        \o Opt(envFile, <<"import dotenv from 'dotenv';">>)
        \o Opt(enableCORS, <<"import cors from 'cors';">>)
        \o Opt(morganLogging, <<"import morgan from 'morgan';">>)
      appSetup ==
        Opt(envFile,
            <<"dotenv.config(); // Load environment variables from .env file">>)
        \o <<"const app = express();", "app.use(express.json());">>
        \o Opt(enableCORS, <<"app.use(cors()); // Enable CORS">>)
        \o Opt(morganLogging, <<"app.use(morgan('dev')); // Use Morgan for logging">>)
      remainingSetup ==
        << "export const envMode = process.env.NODE_ENV || 'development';",
           "const port = process.env.PORT || 3000;",
           "app.listen(port, () => {",
           "console.log(`Server running in ${envMode} mode on port ${port}`);",
           "});",
           "app.get('/', (req, res) => {",
           "res.send('Hello World');",
           "});",
           "export default app;" >>
  IN imports \o appSetup \o remainingSetup

envContent == <<"PORT=3000", "NODE_ENV=development">>

tsconfigContent ==
  << "{",
     "\"compilerOptions\": {",
     "\"target\": \"ES6\",",
     "\"module\": \"commonjs\",",
     "\"outDir\": \"./dist\",",
     "\"rootDir\": \"./src\",",
     "\"strict\": true,",
     "\"esModuleInterop\": true",
     "},",
     "\"exclude\": [\"node_modules\"]",
     "}" >>

errorMiddlewareContent ==
  << "import { NextFunction, Request, Response } from 'express';",
     "import { ErrorHandler } from '../utils/errorHandler';",
     "import { envMode } from '../app';",
     "const errorMiddleware = (err: ErrorHandler, req: Request, res: Response, next: NextFunction) => {",
     "err.message = err.message || 'Internal Server Error';",
     "err.statusCode = err.statusCode || 500;",
     "const response: {",
     "success: boolean;",
     "message: string;",
     "error?: ErrorHandler;",
     "} = {",
     "success: false,",
     "message: err.message,",
     "};",
     "if (envMode === 'development') {",
     "response.error = err;",
     "}",
     "res.status(err.statusCode).json(response);",
     "};",
     "export default errorMiddleware;" >>

dockerfileContent ==
  << "FROM node:20",
     "WORKDIR /usr/src/app",
     "COPY package*.json ./",
     "RUN npm install",
     "COPY . ." >>
  \o Opt(answers.envFile, <<"ENV NODE_ENV=production">>)
  \o << "EXPOSE 3000",
        "CMD [\"npm\", \"run\", \"dev\"]" >>

-----------------------------------------------------------------------------
(* package.json: a JavaScript object is the ordered sequence of its        *)
(* <<key, value>> pairs; the JSON text is a sequence of tokens             *)

Keys(obj) == {obj[i][1] : i \in 1..Len(obj)}

Get(obj, key) == (CHOOSE i \in 1..Len(obj) : obj[i][1] = key) \* key \in Keys(obj)

Value(obj, key) == obj[Get(obj, key)][2]

\* obj[key] = value: an existing key keeps its place, a new key goes last
SetKey(obj, key, value) ==
  IF key \in Keys(obj)
  THEN [obj EXCEPT ![Get(obj, key)] = <<key, value>>]
  ELSE Append(obj, <<key, value>>)

RECURSIVE StringifyPairs(_)
StringifyPairs(obj) ==
  IF obj = <<>> THEN <<>>
  ELSE <<obj[1][1], ":", obj[1][2]>>
       \o (IF Len(obj) > 1 THEN <<",">> ELSE <<>>)
       \o StringifyPairs(Tail(obj))

\* JSON.stringify(packageJson, null, 2)
JSONstringify(packageJson) ==
  <<"{", "name", ":", packageJson.name, ",", "scripts", ":", "{">>
  \o StringifyPairs(packageJson.scripts) \o <<"}", "}">>

RECURSIVE ParsePairs(_)
ParsePairs(tokens) ==
  IF tokens = <<>> \/ tokens[1] = "}" THEN <<>>
  ELSE IF tokens[1] = "," THEN ParsePairs(Tail(tokens))
  ELSE <<<<tokens[1], tokens[3]>>>> \o ParsePairs(SubSeq(tokens, 4, Len(tokens)))

\* JSON.parse(text)
JSONparse(text) ==
  [name |-> text[4], scripts |-> ParsePairs(SubSeq(text, 9, Len(text)))]

\* what `npm init -y` leaves in the directory: a package.json that is already
\* there is kept, otherwise a default one named after the directory
NpmInitPackageJson(dir) ==
  IF PathJoin(dir, "package.json") \in DOMAIN files
  THEN files[PathJoin(dir, "package.json")]
  ELSE JSONstringify(
         [name |-> Basename(dir),
          scripts |-> << <<"test", "echo \"Error: no test specified\" && exit 1">> >>])

\* the scripts object after the dev and watch entries are set
WithScripts(packageJson) ==
  IF script = "index.js"
  THEN IF answers.language = "TypeScript"
       THEN [packageJson EXCEPT !.scripts =
               SetKey(SetKey(@, "dev", "nodemon src/app.ts"), "watch", "tsc -w")]
       ELSE [packageJson EXCEPT !.scripts =
               SetKey(SetKey(@, "dev", "nodemon src/app.js"), "watch", "")]
  ELSE [packageJson EXCEPT !.scripts =
          SetKey(SetKey(@, "dev", "nodemon src/app.ts"), "watch", "tsc -w")]

-----------------------------------------------------------------------------
(* The file system seen through fs.existsSync, fs.mkdirSync,               *)
(* fs.readFileSync and fs.writeFileSync                                    *)

existsSync(path) == path \in dirs \/ path \in DOMAIN files

mkdirSync(path) ==
  IF existsSync(path) THEN "EEXIST"
  ELSE IF Dirname(path) \notin dirs THEN "ENOENT"
  ELSE "ok"

writeFileSync(path) ==
  IF path \in dirs THEN "EISDIR"
  ELSE IF Dirname(path) \notin dirs THEN "ENOENT"
  ELSE "ok"

FsOp(op, path, result) == [op |-> op, path |-> path, result |-> result]

\* mkdirSync without the existsSync guard
NeedsMkdir_Always(path) == TRUE

\* the condition of `if (!fs.existsSync(dir))`
NeedsMkdir(path) == ~existsSync(path)

\* if (!fs.existsSync(path)) { fs.mkdirSync(path); }  then go to next
EnsureDir(path, next) ==
  LET need == NeedsMkdir(path)
      r == mkdirSync(path)
  IN /\ ops' = ops
               \o <<FsOp("existsSync", path, IF existsSync(path) THEN "true" ELSE "false")>>
               \o Opt(need, <<FsOp("mkdirSync", path, r)>>)
     /\ dirs' = IF need /\ r = "ok" THEN dirs \cup {path} ELSE dirs
     /\ pc' = IF need /\ r # "ok" THEN "crashed" ELSE next

\* fs.writeFileSync(path, content)  then go to next
WriteFile(path, content, next) ==
  LET r == writeFileSync(path)
  IN /\ ops' = Append(ops, FsOp("writeFileSync", path, r))
     /\ files' = IF r = "ok" THEN (path :> content) @@ files ELSE files
     /\ pc' = IF r = "ok" THEN next ELSE "crashed"

-----------------------------------------------------------------------------
(* Dependency lists *)

Dependencies(a) ==
  <<"express">>
  \o Opt(a.enableCORS, <<"cors">>)
  \o Opt(a.morganLogging, <<"morgan">>)
  \o Opt(a.envFile, <<"dotenv">>)

\* the type stubs pushed outside the TypeScript branch
DevDependencies_StubsAnyLanguage(a) ==
  <<"nodemon">>
  \o Opt(a.language = "TypeScript",
         <<"typescript", "@types/express", "@types/node", "ts-node">>)
  \o Opt(a.enableCORS, <<"@types/cors">>)
  \o Opt(a.morganLogging, <<"@types/morgan">>)

DevDependencies(a) ==
  <<"nodemon">>
  \o Opt(a.language = "TypeScript",
         <<"typescript", "@types/express", "@types/node", "ts-node">>
         \o Opt(a.enableCORS, <<"@types/cors">>)
         \o Opt(a.morganLogging, <<"@types/morgan">>))

-----------------------------------------------------------------------------
(* Version lookup and the install command *)

\* the registry: the version `npm show <package> version` prints
LatestVersion(packageName) ==
  CASE packageName = "express" -> "4.21.0"
    [] packageName = "cors" -> "2.8.5"
    [] packageName = "morgan" -> "1.10.0"
    [] packageName = "dotenv" -> "16.4.5"
    [] packageName = "nodemon" -> "3.1.7"
    [] packageName = "typescript" -> "5.6.3"
    [] packageName = "@types/express" -> "5.0.0"
    [] packageName = "@types/node" -> "22.8.6"
    [] packageName = "ts-node" -> "10.9.2"
    [] packageName = "@types/cors" -> "2.8.17"
    [] packageName = "@types/morgan" -> "1.9.9"
    [] OTHER -> "1.0.0"

\* the outcome of execPromise(`npm show ${packageName} version`);
\* a command line and an output are sequences of tokens
NpmShow(packageName, fails) ==
  IF fails THEN [err |-> TRUE, stdout |-> <<>>]
  ELSE [err |-> FALSE, stdout |-> <<LatestVersion(packageName), "\n">>]

Whitespace == {" ", "\n", "\t"}

RECURSIVE TrimStart(_)
TrimStart(tokens) ==
  IF tokens # <<>> /\ tokens[1] \in Whitespace THEN TrimStart(Tail(tokens)) ELSE tokens

RECURSIVE TrimEnd(_)
TrimEnd(tokens) ==
  IF tokens # <<>> /\ tokens[Len(tokens)] \in Whitespace
  THEN TrimEnd(SubSeq(tokens, 1, Len(tokens) - 1))
  ELSE tokens

\* the string a sequence of tokens spells
RECURSIVE Concat(_)
Concat(tokens) ==
  IF tokens = <<>> THEN "" ELSE tokens[1] \o Concat(Tail(tokens))

\* stdout.trim()
Trim(tokens) == Concat(TrimEnd(TrimStart(tokens)))

\* array.join(sep), as a sequence of tokens
RECURSIVE Join(_, _)
Join(strings, sep) ==
  IF strings = <<>> THEN <<>>
  ELSE IF Len(strings) = 1 THEN <<strings[1]>>
  ELSE <<strings[1], sep>> \o Join(Tail(strings), sep)

\* JavaScript values
JsString(s) == [type |-> "string", s |-> s]

null == [type |-> "null", s |-> ""]

undefined == [type |-> "undefined", s |-> ""]

\* a value inside a template literal
String(v) ==
  IF v.type = "null" THEN "null"
  ELSE IF v.type = "undefined" THEN "undefined"
  ELSE v.s

Pending == [state |-> "pending", value |-> undefined]

\* getLatestPackageVersion without its catch: the error of npm show leaves it
getLatestPackageVersion_Rethrow(packageName, exit) ==
  IF ~exit.err
  THEN [state |-> "fulfilled", value |-> JsString(Trim(exit.stdout))]
  ELSE [state |-> "rejected", value |-> undefined]

\* the promise getLatestPackageVersion returns, once npm show has exited
getLatestPackageVersion(packageName, exit) ==
  IF ~exit.err
  THEN [state |-> "fulfilled", value |-> JsString(Trim(exit.stdout))]
  ELSE [state |-> "fulfilled", value |-> null]

\* the list an installDependencies call works on
DepsOf(isDev) == IF isDev THEN devDependencies ELSE dependencies

\* `${dep}@${version}`
DepVersion(dep, version) == dep \o "@" \o String(version)

depVersions(isDev) ==
  [i \in 1..Len(DepsOf(isDev)) |-> DepVersion(DepsOf(isDev)[i], lookups[isDev][i].value)]

\* `npm install ${isDev ? "-D" : ""} ${depList}`, as a sequence of tokens
installCommand(isDev) ==
  <<"npm", " ", "install", " ", IF isDev THEN "-D" ELSE "", " ">>
  \o Join(depVersions(isDev), " ")

\* a child process started by exec; `after` is the number of fs calls the
\* process had made when it started the command
Cmd(command, cwd, kind, isDev, after) ==
  [command |-> command, cwd |-> cwd, kind |-> kind, isDev |-> isDev, after |-> after]

\* a join that lets go at the first settled lookup (Promise.race for Promise.all)
AllSettled_First(isDev) ==
  \E i \in 1..Len(lookups[isDev]) : lookups[isDev][i].state # "pending"

\* the await Promise.all(...) of a call is over: every lookup has settled
AllSettled(isDev) ==
  \A i \in 1..Len(lookups[isDev]) : lookups[isDev][i].state # "pending"

AnyRejected(isDev) ==
  \E i \in 1..Len(lookups[isDev]) : lookups[isDev][i].state = "rejected"

\* continuations that do not wait for the running callback to return
CallStackEmpty_Preempt == TRUE

\* no callback is running: the event loop can take the next callback
CallStackEmpty == pc \in {"start", "waitInit", "initFailed", "done"}

-----------------------------------------------------------------------------
(* Initial state: a fresh working directory, the prompt not yet answered *)

NoFiles == [path \in {} |-> <<>>]

Init ==
  /\ script \in Scripts
  /\ answers \in AnswerSets
  /\ prompt = "pending"
  /\ pc = "start"
  /\ initExit = "none"
  /\ folderIdx = 1
  /\ dirs = {Cwd}
  /\ files = NoFiles
  /\ ops = <<>>
  /\ cmds = <<>>
  /\ dependencies = <<>>
  /\ devDependencies = <<>>
  /\ lookups = [c \in Calls |-> <<>>]
  /\ install = [c \in Calls |-> "none"]
  /\ failures = 0
  /\ run = 1
  /\ dirsAtLaunch = {Cwd}
  /\ filesAtLaunch = NoFiles

-----------------------------------------------------------------------------
(* The questionnaire *)

\* the user answers every question: the promise of inquirer.prompt resolves
PromptAnswer ==
  /\ prompt = "pending"
  /\ prompt' = "answered"
  /\ UNCHANGED <<script, answers, initExit, pc, folderIdx, dirs, files, ops, cmds,
                 dependencies, devDependencies, lookups, install, failures, run,
                 dirsAtLaunch, filesAtLaunch>>

\* the user cancels: the promise never resolves
PromptCancel ==
  /\ prompt = "pending"
  /\ prompt' = "cancelled"
  /\ UNCHANGED <<script, answers, initExit, pc, folderIdx, dirs, files, ops, cmds,
                 dependencies, devDependencies, lookups, install, failures, run,
                 dirsAtLaunch, filesAtLaunch>>

\* a callback attached so that it runs however the promise settles
ThenRuns_Settled == prompt # "pending"

\* the .then callback is called only with a resolved answer set
ThenRuns == prompt = "answered"

\* the .then callback: create the project directory, start npm init
ThenCallback ==
  /\ pc = "start"
  /\ ThenRuns
  /\ EnsureDir(projectDir, "waitInit")
  /\ cmds' = IF pc' = "waitInit"
             THEN Append(cmds, Cmd(<<"npm", " ", "init", " ", "-y">>, projectDir, "init", FALSE, Len(ops')))
             ELSE cmds
  /\ initExit' = IF pc' = "waitInit" THEN "running" ELSE initExit
  /\ UNCHANGED <<script, answers, prompt, folderIdx, files,
                 dependencies, devDependencies, lookups, install, failures, run,
                 dirsAtLaunch, filesAtLaunch>>

\* the npm init callback without the return in its error branch
NpmInitExit_NoReturn ==
  /\ pc = "waitInit"
  /\ \E err \in BOOLEAN :
       /\ pc' = "scripts"
       /\ initExit' = IF err THEN "err" ELSE "ok"
       /\ files' = (packageJsonPath :> NpmInitPackageJson(projectDir)) @@ files
  /\ UNCHANGED <<script, answers, prompt, folderIdx, dirs, ops, cmds,
                 dependencies, devDependencies, lookups, install, failures, run,
                 dirsAtLaunch, filesAtLaunch>>

\* npm init exits and its callback starts: on an error it logs and returns.
\* An npm init that failed may or may not have left its package.json.
NpmInitExit ==
  /\ pc = "waitInit"
  /\ \E err \in BOOLEAN, wrote \in BOOLEAN :
       IF err
       THEN /\ pc' = "initFailed"
            /\ initExit' = "err"
            /\ files' = IF wrote
                        THEN (packageJsonPath :> NpmInitPackageJson(projectDir)) @@ files
                        ELSE files
       ELSE /\ wrote
            /\ pc' = "scripts"
            /\ initExit' = "ok"
            /\ files' = (packageJsonPath :> NpmInitPackageJson(projectDir)) @@ files
  /\ UNCHANGED <<script, answers, prompt, folderIdx, dirs, ops, cmds,
                 dependencies, devDependencies, lookups, install, failures, run,
                 dirsAtLaunch, filesAtLaunch>>

\* read package.json, set the dev and watch scripts, write it back
UpdateScripts ==
  /\ pc = "scripts"
  /\ LET packageJson == JSONparse(files[packageJsonPath])
         r == writeFileSync(packageJsonPath)
     IN /\ ops' = ops \o <<FsOp("readFileSync", packageJsonPath, "ok"),
                           FsOp("writeFileSync", packageJsonPath, r)>>
        /\ files' = IF r = "ok"
                    THEN (packageJsonPath :> JSONstringify(WithScripts(packageJson))) @@ files
                    ELSE files
        /\ pc' = IF r = "ok" THEN "deps" ELSE "crashed"
  /\ UNCHANGED <<script, answers, initExit, prompt, folderIdx, dirs, cmds,
                 dependencies, devDependencies, lookups, install, failures, run,
                 dirsAtLaunch, filesAtLaunch>>

\* build the two dependency lists
BuildDependencies ==
  /\ pc = "deps"
  /\ dependencies' = Dependencies(answers)
  /\ devDependencies' = DevDependencies(answers)
  /\ pc' = "installDeps"
  /\ UNCHANGED <<script, answers, initExit, prompt, folderIdx, dirs, files, ops, cmds,
                 lookups, install, failures, run, dirsAtLaunch, filesAtLaunch>>

\* installDependencies(list, projectDir, isDev) up to its await: one npm show
\* is started per package, in list order, in the process's working directory
CallInstallDependencies(isDev, next) ==
  /\ cmds' = cmds \o [i \in 1..Len(DepsOf(isDev)) |->
                        Cmd(<<"npm", " ", "show", " ", DepsOf(isDev)[i], " ", "version">>,
                            Cwd, "show", isDev, Len(ops))]
  /\ lookups' = [lookups EXCEPT ![isDev] = [i \in 1..Len(DepsOf(isDev)) |-> Pending]]
  /\ install' = [install EXCEPT ![isDev] = "awaiting"]
  /\ pc' = next
  /\ UNCHANGED <<script, answers, initExit, prompt, folderIdx, dirs, files, ops,
                 dependencies, devDependencies, failures, run,
                 dirsAtLaunch, filesAtLaunch>>

InstallRuntime ==
  /\ pc = "installDeps"
  /\ CallInstallDependencies(FALSE, "installDevDeps")

InstallDev ==
  /\ pc = "installDevDeps"
  /\ CallInstallDependencies(TRUE, "mkSrc")

-----------------------------------------------------------------------------
(* File generation: the rest of the npm init callback, synchronous *)

GenUnchanged ==
  UNCHANGED <<script, answers, initExit, prompt, cmds, dependencies, devDependencies,
              lookups, install, failures, run, dirsAtLaunch, filesAtLaunch>>

MkSrc ==
  /\ pc = "mkSrc"
  /\ EnsureDir(srcDir, "mkFolders")
  /\ UNCHANGED <<folderIdx, files>>
  /\ GenUnchanged

\* one round of folders.forEach
MkFolder ==
  /\ pc = "mkFolders"
  /\ folderIdx <= Len(folders)
  /\ EnsureDir(PathJoin(srcDir, folders[folderIdx]),
               IF folderIdx = Len(folders) THEN "mkUtils" ELSE "mkFolders")
  /\ folderIdx' = folderIdx + 1
  /\ UNCHANGED files
  /\ GenUnchanged

MkUtils ==
  /\ pc = "mkUtils"
  /\ EnsureDir(utilsDir, "writeErrorHandler")
  /\ UNCHANGED <<folderIdx, files>>
  /\ GenUnchanged

WriteErrorHandler ==
  /\ pc = "writeErrorHandler"
  /\ WriteFile(errorHandlerPath, errorHandlerContent, "writeApp")
  /\ UNCHANGED <<folderIdx, dirs>>
  /\ GenUnchanged

WriteApp ==
  /\ pc = "writeApp"
  /\ WriteFile(appFilePath,
               IF script = "index.js"
               THEN appFileContent(answers.enableCORS, answers.morganLogging,
                                   answers.envFile, answers.language)
               ELSE appFileContentTs(answers.enableCORS, answers.morganLogging,
                                     answers.envFile),
               "writeEnv")
  /\ UNCHANGED <<folderIdx, dirs>>
  /\ GenUnchanged

WriteEnv ==
  /\ pc = "writeEnv"
  /\ IF answers.envFile
     THEN WriteFile(envFilePath, envContent, "writeTsconfig")
     ELSE pc' = "writeTsconfig" /\ UNCHANGED <<ops, files>>
  /\ UNCHANGED <<folderIdx, dirs>>
  /\ GenUnchanged

WriteTsconfig ==
  /\ pc = "writeTsconfig"
  /\ IF answers.language = "TypeScript"
     THEN WriteFile(tsconfigFilePath, tsconfigContent, "writeErrorMiddleware")
     ELSE pc' = "writeErrorMiddleware" /\ UNCHANGED <<ops, files>>
  /\ UNCHANGED <<folderIdx, dirs>>
  /\ GenUnchanged

\* part_000 ends here; index.js goes on to the Dockerfile
WriteErrorMiddleware ==
  /\ pc = "writeErrorMiddleware"
  /\ WriteFile(errorMiddlewarePath, errorMiddlewareContent,
               IF script = "index.js" THEN "writeDockerfile" ELSE "done")
  /\ UNCHANGED <<folderIdx, dirs>>
  /\ GenUnchanged

WriteDockerfile ==
  /\ pc = "writeDockerfile"
  /\ IF answers.docker
     THEN WriteFile(dockerFilePath, dockerfileContent, "done")
     ELSE pc' = "done" /\ UNCHANGED <<ops, files>>
  /\ UNCHANGED <<folderIdx, dirs>>
  /\ GenUnchanged

-----------------------------------------------------------------------------
(* Continuations run by the event loop *)

\* one npm show exits; getLatestPackageVersion settles its promise.  A
\* rejected lookup would reject the Promise.all of the call.
LookupDone(isDev, i, fails) ==
  /\ CallStackEmpty
  /\ install[isDev] = "awaiting"
  /\ i \in 1..Len(lookups[isDev])
  /\ lookups[isDev][i].state = "pending"
  /\ fails => failures < MaxFailures
  /\ LET p == getLatestPackageVersion(DepsOf(isDev)[i], NpmShow(DepsOf(isDev)[i], fails))
     IN /\ lookups' = [lookups EXCEPT ![isDev][i] = p]
        /\ install' = IF p.state = "rejected"
                      THEN [install EXCEPT ![isDev] = "rejected"]
                      ELSE install
  /\ failures' = IF fails THEN failures + 1 ELSE failures
  /\ UNCHANGED <<script, answers, initExit, prompt, pc, folderIdx, dirs, files, ops, cmds,
                 dependencies, devDependencies, run, dirsAtLaunch, filesAtLaunch>>

\* the dev install held back until the runtime install has exited, as if the
\* first call and its npm install were awaited
InstallIssue_Sequenced(isDev) ==
  /\ CallStackEmpty
  /\ install[isDev] = "awaiting"
  /\ AllSettled(isDev)
  /\ isDev => install[FALSE] \in {"installed", "failed"}
  /\ cmds' = Append(cmds, Cmd(installCommand(isDev), projectDir, "install", isDev, Len(ops)))
  /\ install' = [install EXCEPT ![isDev] = "running"]
  /\ UNCHANGED <<script, answers, initExit, prompt, pc, folderIdx, dirs, files, ops,
                 dependencies, devDependencies, lookups, failures, run,
                 dirsAtLaunch, filesAtLaunch>>

\* the rest of installDependencies after the await: one npm install is
\* started in the project directory
InstallIssue(isDev) ==
  /\ CallStackEmpty
  /\ install[isDev] = "awaiting"
  /\ AllSettled(isDev)
  /\ cmds' = Append(cmds, Cmd(installCommand(isDev), projectDir, "install", isDev, Len(ops)))
  /\ install' = [install EXCEPT ![isDev] = "running"]
  /\ UNCHANGED <<script, answers, initExit, prompt, pc, folderIdx, dirs, files, ops,
                 dependencies, devDependencies, lookups, failures, run,
                 dirsAtLaunch, filesAtLaunch>>

\* npm install exits; its callback logs the outcome
InstallExit(isDev, err) ==
  /\ CallStackEmpty
  /\ install[isDev] = "running"
  /\ install' = [install EXCEPT ![isDev] = IF err THEN "failed" ELSE "installed"]
  /\ UNCHANGED <<script, answers, initExit, prompt, pc, folderIdx, dirs, files, ops, cmds,
                 dependencies, devDependencies, lookups, failures, run,
                 dirsAtLaunch, filesAtLaunch>>

-----------------------------------------------------------------------------
(* Specifications *)

Next ==
  \/ PromptAnswer
  \/ PromptCancel
  \/ ThenCallback
  \/ NpmInitExit
  \/ UpdateScripts
  \/ BuildDependencies
  \/ InstallRuntime
  \/ InstallDev
  \/ MkSrc
  \/ MkFolder
  \/ MkUtils
  \/ WriteErrorHandler
  \/ WriteApp
  \/ WriteEnv
  \/ WriteTsconfig
  \/ WriteErrorMiddleware
  \/ WriteDockerfile
  \/ \E isDev \in Calls, i \in 1..7, fails \in BOOLEAN : LookupDone(isDev, i, fails)
  \/ \E isDev \in Calls : InstallIssue(isDev)
  \/ \E isDev \in Calls, err \in BOOLEAN : InstallExit(isDev, err)

Spec == Init /\ [][Next]_vars

\* the generator has finished: generation is over and both installs exited
Finished ==
  /\ pc = "done"
  /\ \A isDev \in Calls : install[isDev] \in {"installed", "failed"}

\* the user launches the generator again in the same working directory and
\* gives the same answers
Relaunch ==
  /\ Finished
  /\ run < MaxRuns
  /\ run' = run + 1
  /\ prompt' = "pending"
  /\ pc' = "start"
  /\ initExit' = "none"
  /\ folderIdx' = 1
  /\ ops' = <<>>
  /\ cmds' = <<>>
  /\ dependencies' = <<>>
  /\ devDependencies' = <<>>
  /\ lookups' = [c \in Calls |-> <<>>]
  /\ install' = [c \in Calls |-> "none"]
  /\ failures' = 0
  /\ dirsAtLaunch' = dirs
  /\ filesAtLaunch' = files
  /\ UNCHANGED <<script, answers, dirs, files>>

NextRerun == Next \/ Relaunch

SpecRerun == Init /\ [][NextRerun]_vars

-----------------------------------------------------------------------------
(* Vocabulary of the properties *)

IsWord(token) == token \notin Whitespace \cup {""}

\* the words the shell passes to the program of a command line
Argv(command) == SelectSeq(command, IsWord)

\* the npm install commands an installDependencies call has started
InstallCmds(isDev) ==
  {k \in 1..Len(cmds) : cmds[k].kind = "install" /\ cmds[k].isDev = isDev}

Issued(isDev) == install[isDev] \in {"running", "installed", "failed"}

\* lookup i of a call failed: getLatestPackageVersion gave null
LookupFailed(isDev, i) == lookups[isDev][i].value.type = "null"

\* the name@version pair of a package whose lookup succeeded
Pair(packageName) == packageName \o "@" \o LatestVersion(packageName)

\* position of the first name@version word in an npm install command
FirstPair(isDev) == IF isDev THEN 4 ELSE 3

-----------------------------------------------------------------------------
(* C1 *)

\* C1: a version lookup that fails does not abort its batch: the call is never
\* rejected, and once its npm install is issued the command carries, for every
\* package of the batch whose lookup succeeded, that package's name@version.
C1_FailSoftBatch ==
  \A isDev \in Calls :
    /\ install[isDev] # "rejected"
    /\ Issued(isDev) =>
         \E k \in InstallCmds(isDev) :
           \A i \in 1..Len(DepsOf(isDev)) :
             ~LookupFailed(isDev, i) =>
               /\ FirstPair(isDev) + i - 1 <= Len(Argv(cmds[k].command))
               /\ Argv(cmds[k].command)[FirstPair(isDev) + i - 1] = Pair(DepsOf(isDev)[i])

\* a batch of at least two packages in which exactly one lookup failed has had
\* its npm install issued
C1_Witness ==
  \E isDev \in Calls :
    /\ Issued(isDev)
    /\ Len(DepsOf(isDev)) >= 2
    /\ Cardinality({i \in 1..Len(DepsOf(isDev)) : LookupFailed(isDev, i)}) = 1

-----------------------------------------------------------------------------
(* C10 *)

\* C10: an installDependencies call issues exactly one npm install, and only
\* once every lookup of the call has settled; the command runs in the project
\* directory, has -D exactly for the dev call, and carries one name@version
\* word per package of the list, in the list's order (name@null for a failed
\* lookup).
C10_OneInstallAfterJoin ==
  \A isDev \in Calls :
    /\ Cardinality(InstallCmds(isDev)) = IF Issued(isDev) THEN 1 ELSE 0
    /\ \A k \in InstallCmds(isDev) :
         /\ Len(lookups[isDev]) = Len(DepsOf(isDev))
         /\ \A i \in 1..Len(lookups[isDev]) : lookups[isDev][i].state = "fulfilled"
         /\ cmds[k].cwd = <<"cwd", answers.projectName>>
         /\ Argv(cmds[k].command) =
              <<"npm", "install">> \o (IF isDev THEN <<"-D">> ELSE <<>>)
              \o [i \in 1..Len(DepsOf(isDev)) |->
                    IF LookupFailed(isDev, i)
                    THEN DepsOf(isDev)[i] \o "@null"
                    ELSE Pair(DepsOf(isDev)[i])]

\* both calls have issued their npm install, each for a list of several
\* packages
C10_Witness ==
  /\ \A isDev \in Calls : Issued(isDev) /\ Cardinality(InstallCmds(isDev)) = 1
  /\ Len(dependencies) >= 3
  /\ Len(devDependencies) >= 5

-----------------------------------------------------------------------------
(* C2 *)

\* the directories and files a run creates for its script and answers
TargetDirs ==
  {projectDir, srcDir, utilsDir} \cup {PathJoin(srcDir, folders[i]) : i \in 1..Len(folders)}

TargetFiles ==
  {packageJsonPath, errorHandlerPath, appFilePath, errorMiddlewarePath}
  \cup (IF answers.envFile THEN {envFilePath} ELSE {})
  \cup (IF answers.language = "TypeScript" THEN {tsconfigFilePath} ELSE {})
  \cup (IF script = "index.js" /\ answers.docker THEN {dockerFilePath} ELSE {})

InstallStarted == \E k \in 1..Len(cmds) : cmds[k].kind = "install"

GenerationPending ==
  \/ pc # "done"
  \/ \E d \in TargetDirs : d \notin dirs
  \/ \E f \in TargetFiles : f \notin DOMAIN files

\* the process made an fs call after it had started an npm install
FsCallAfterInstall ==
  \E k \in 1..Len(cmds) : cmds[k].kind = "install" /\ cmds[k].after < Len(ops)

\* C2 (as amended): installation does not race with file generation: whenever
\* an npm install command has been started, the file generation of the run is
\* over, every directory and file of the run is on disk, and the process
\* makes no fs call afterwards.  Only the npm show lookups are started before
\* the files are written.
C2_InstallAfterGeneration ==
  InstallStarted => (~GenerationPending /\ ~FsCallAfterInstall)

\* an npm install is running and the run's files are all on disk, while the
\* lookups had been started before the first generated directory existed
C2_Witness ==
  /\ \E isDev \in Calls : install[isDev] = "running"
  /\ ~GenerationPending
  /\ \E k \in 1..Len(cmds), j \in 1..Len(ops) :
       /\ cmds[k].kind = "show"
       /\ cmds[k].after < j
       /\ ops[j].op = "mkdirSync" /\ ops[j].path = srcDir

\* C2 (as claimed): installation races with file generation: a run that has
\* finished started an npm install while a file or directory of the run was
\* still to be written.
C2_Race == Finished => FsCallAfterInstall

-----------------------------------------------------------------------------
(* C3 *)

\* C3: when the user cancels the questionnaire the run has no side effects:
\* no fs call is made, no command (npm init, npm show, npm install) is
\* started, and the disk is as it was when the process was launched.
C3_CancelNoSideEffects ==
  prompt = "cancelled" =>
    /\ ops = <<>>
    /\ cmds = <<>>
    /\ dirs = dirsAtLaunch
    /\ files = filesAtLaunch

\* the user has cancelled the questionnaire
C3_Witness == prompt = "cancelled" /\ pc = "start"

-----------------------------------------------------------------------------
(* C4 *)

\* an earlier fs call created the directory or found it present
DirectoryKnownBefore(j, dir) ==
  \E i \in 1..(j - 1) :
    /\ ops[i].path = dir
    /\ \/ ops[i].op = "mkdirSync" /\ ops[i].result = "ok"
       \/ ops[i].op = "existsSync" /\ ops[i].result = "true"

\* C4: in the sequence of fs calls of a run, every file write succeeds and
\* comes after the creation, or the confirmed existence, of the directory
\* the file is written into.
C4_ParentBeforeWrite ==
  \A j \in 1..Len(ops) :
    ops[j].op = "writeFileSync" =>
      /\ ops[j].result = "ok"
      /\ DirectoryKnownBefore(j, Dirname(ops[j].path))

WrittenInto(dir) ==
  \E j \in 1..Len(ops) : ops[j].op = "writeFileSync" /\ Dirname(ops[j].path) = dir

\* a finished generation of a second launch, which found its directories
\* present and wrote into the project root, src, src/utils and src/middlewares
C4_Witness ==
  /\ run = 2
  /\ pc = "done"
  /\ WrittenInto(projectDir)
  /\ WrittenInto(srcDir)
  /\ WrittenInto(utilsDir)
  /\ WrittenInto(PathJoin(srcDir, "middlewares"))
  /\ \E j \in 1..Len(ops) : ops[j].path = dockerFilePath

-----------------------------------------------------------------------------
(* C5 *)

\* C5: a launch with the same answers against a disk on which every target
\* directory already exists does not fail: it attempts no mkdirSync, no fs
\* call throws, and when the generation is over every file is on disk with
\* the content it had at the launch (the content the earlier run left).
C5_RerunIdempotent ==
  (run > 1 /\ TargetDirs \subseteq dirsAtLaunch) =>
    /\ pc # "crashed"
    /\ \A j \in 1..Len(ops) : ops[j].op # "mkdirSync"
    /\ pc = "done" =>
         /\ TargetFiles \subseteq DOMAIN files
         /\ files = filesAtLaunch

\* a second launch has finished its file generation
C5_Witness ==
  /\ run = 2
  /\ TargetDirs \subseteq dirsAtLaunch
  /\ pc = "done"
  /\ \E j \in 1..Len(ops) : ops[j].op = "writeFileSync" /\ ops[j].path = appFilePath

-----------------------------------------------------------------------------
(* C6 *)

Range(seq) == {seq[i] : i \in 1..Len(seq)}

\* installDependencies has been called with the two lists
ListsPassed == install[FALSE] # "none" /\ install[TRUE] # "none"

IsTypeScript == answers.language = "TypeScript"

\* C6 (as amended): express is always a runtime dependency and nodemon always
\* a dev dependency; each of enableCORS, morganLogging, envFile adds its
\* runtime package (cors, morgan, dotenv) exactly when it is true; cors and
\* morgan also add their type stubs (@types/cors, @types/morgan) to the dev
\* list exactly when the toggle is true and the language is TypeScript; dotenv
\* never adds a type stub.
C6_DependencyLists ==
  ListsPassed =>
    /\ "express" \in Range(dependencies)
    /\ "nodemon" \in Range(devDependencies)
    /\ "cors" \in Range(dependencies) <=> answers.enableCORS
    /\ "morgan" \in Range(dependencies) <=> answers.morganLogging
    /\ "dotenv" \in Range(dependencies) <=> answers.envFile
    /\ "@types/cors" \in Range(devDependencies) <=> (answers.enableCORS /\ IsTypeScript)
    /\ "@types/morgan" \in Range(devDependencies) <=> (answers.morganLogging /\ IsTypeScript)
    /\ "@types/dotenv" \notin Range(devDependencies)

\* the lists of a TypeScript run with all three toggles on have been passed
C6_Witness ==
  /\ ListsPassed
  /\ IsTypeScript
  /\ answers.enableCORS /\ answers.morganLogging /\ answers.envFile
  /\ Len(dependencies) = 4
  /\ Len(devDependencies) = 7

\* C6 (as claimed): as above, but every true toggle, envFile included, adds
\* its package's type stub to the dev list if and only if the language is
\* TypeScript.
C6_StubForEveryToggle ==
  ListsPassed =>
    /\ "express" \in Range(dependencies)
    /\ "nodemon" \in Range(devDependencies)
    /\ "cors" \in Range(dependencies) <=> answers.enableCORS
    /\ "morgan" \in Range(dependencies) <=> answers.morganLogging
    /\ "dotenv" \in Range(dependencies) <=> answers.envFile
    /\ "@types/cors" \in Range(devDependencies) <=> (answers.enableCORS /\ IsTypeScript)
    /\ "@types/morgan" \in Range(devDependencies) <=> (answers.morganLogging /\ IsTypeScript)
    /\ "@types/dotenv" \in Range(devDependencies) <=> (answers.envFile /\ IsTypeScript)

-----------------------------------------------------------------------------
(* C7 *)

DockerfileWrites ==
  {j \in 1..Len(ops) :
     ops[j].op = "writeFileSync" /\ ops[j].path = <<"cwd", answers.projectName, "Dockerfile">>}

\* C7: a completed run has written a Dockerfile in the project root exactly
\* once when docker is true and never when docker is false.
C7_DockerfileIffDocker ==
  pc = "done" => Cardinality(DockerfileWrites) = IF answers.docker THEN 1 ELSE 0

-----------------------------------------------------------------------------
(* C8 *)

ManifestWritten ==
  \E j \in 1..Len(ops) :
    /\ ops[j].op = "writeFileSync"
    /\ ops[j].path = <<"cwd", answers.projectName, "package.json">>
    /\ ops[j].result = "ok"

ManifestScripts == JSONparse(files[<<"cwd", answers.projectName, "package.json">>]).scripts

\* C8: the manifest written by the run has a dev script that starts the entry
\* file of the chosen language, and a watch script that is the recompile
\* command for TypeScript and empty or absent for JavaScript.
C8_ScriptsMatchLanguage ==
  ManifestWritten =>
    /\ "dev" \in Keys(ManifestScripts)
    /\ Value(ManifestScripts, "dev") =
         (IF IsTypeScript THEN "nodemon src/app.ts" ELSE "nodemon src/app.js")
    /\ IF IsTypeScript
       THEN "watch" \in Keys(ManifestScripts) /\ Value(ManifestScripts, "watch") = "tsc -w"
       ELSE "watch" \in Keys(ManifestScripts) => Value(ManifestScripts, "watch") = ""

-----------------------------------------------------------------------------
(* C9 *)

\* path.extname of the file names the scripts use
Extname(name) ==
  CASE name \in {"errorHandler.ts", "app.ts", "error.ts"} -> ".ts"
    [] name \in {"errorHandler.js", "app.js", "error.js"} -> ".js"
    [] name \in {"package.json", "tsconfig.json"} -> ".json"
    [] OTHER -> ""

\* lines only TypeScript accepts: a field declaration and annotated parameters
TypeScriptOnlyLines ==
  {"public statusCode: number;",
   "constructor(message: string, statusCode: number = 500) {"}

HasTypeScriptSyntax(text) == \E i \in 1..Len(text) : text[i] \in TypeScriptOnlyLines

\* C9: the error-handler file written under src/utils matches the chosen
\* language: a .ts file for TypeScript, and for JavaScript a .js file without
\* TypeScript syntax.
C9_ErrorHandlerMatchesLanguage ==
  \A j \in 1..Len(ops) :
    (ops[j].op = "writeFileSync" /\ Dirname(ops[j].path) = <<"cwd", answers.projectName, "src", "utils">>) =>
      /\ Extname(Basename(ops[j].path)) = (IF IsTypeScript THEN ".ts" ELSE ".js")
      /\ ~IsTypeScript => ~HasTypeScriptSyntax(files[ops[j].path])

-----------------------------------------------------------------------------
(* C11 *)

Other(isDev) == ~isDev

\* C11: the two installDependencies calls do not wait for each other.  In
\* whatever state the other call is, a call whose lookups have all settled can
\* start its npm install, and a running npm install can exit (with or without
\* an error): either install may start first and either may finish first,
\* and both can be running in the project directory at once.
C11_InstallsIndependent ==
  \A isDev \in Calls :
    /\ (CallStackEmpty /\ install[isDev] = "awaiting" /\ AllSettled(isDev)) =>
         ENABLED InstallIssue(isDev)
    /\ (CallStackEmpty /\ install[isDev] = "running") =>
         /\ ENABLED InstallExit(isDev, FALSE)
         /\ ENABLED InstallExit(isDev, TRUE)
    /\ (install[isDev] = "running" /\ install[Other(isDev)] = "running") =>
         \A k \in InstallCmds(isDev), m \in InstallCmds(Other(isDev)) :
           cmds[k].cwd = cmds[m].cwd

\* both npm install commands are running in the project directory, the one of
\* the dev call (made second) having been started first
C11_Witness ==
  /\ install[FALSE] = "running"
  /\ install[TRUE] = "running"
  /\ \E k \in InstallCmds(TRUE), m \in InstallCmds(FALSE) :
       /\ k < m
       /\ cmds[k].cwd = <<"cwd", answers.projectName>>
       /\ cmds[m].cwd = <<"cwd", answers.projectName>>

-----------------------------------------------------------------------------
(* C12 *)

\* C12: when npm init fails the run stops after logging.  The script has made
\* no fs call but the existsSync / mkdirSync of the project root (package.json
\* is neither read nor rewritten), has started no command but npm init (no
\* npm show, no npm install), and has created no directory but the project
\* root, which stays on disk; the only file that can be new is the
\* package.json npm init itself may have left.
C12_InitFailureStops ==
  initExit = "err" =>
    /\ pc = "initFailed"
    /\ \A j \in 1..Len(ops) :
         /\ ops[j].op \in {"existsSync", "mkdirSync"}
         /\ ops[j].path = <<"cwd", answers.projectName>>
    /\ Len(cmds) = 1 /\ cmds[1].kind = "init"
    /\ \A isDev \in Calls : install[isDev] = "none" /\ lookups[isDev] = <<>>
    /\ dependencies = <<>> /\ devDependencies = <<>>
    /\ <<"cwd", answers.projectName>> \in dirs
    /\ dirs = dirsAtLaunch \cup {<<"cwd", answers.projectName>>}
    /\ \A f \in DOMAIN filesAtLaunch : f \in DOMAIN files /\ files[f] = filesAtLaunch[f]
    /\ \A f \in DOMAIN files :
         f \in DOMAIN filesAtLaunch \/ f = <<"cwd", answers.projectName, "package.json">>

\* npm init has failed in a project root this run created
C12_Witness ==
  /\ initExit = "err"
  /\ \E j \in 1..Len(ops) :
       ops[j].op = "mkdirSync" /\ ops[j].path = projectDir /\ ops[j].result = "ok"
  /\ projectDir \in dirs
  /\ projectDir \notin dirsAtLaunch

====
